---- MODULE Spec2Model ----
(***************************************************************************)
(* kadugu (src/main.rs): a sharer re-exports its internet access to a user *)
(* over a libp2p overlay.  The model covers main (mode resolution, startup *)
(* and the swarm event loop), portforward_connection_handler (the user's   *)
(* local listener) and handle_incoming_streams (the sharer's acceptance    *)
(* loop with its access control check), plus the tunnel sessions both      *)
(* loops spawn.                                                            *)
(*                                                                         *)
(* Strings are sequences of characters, so that str::contains is computed  *)
(* and not assumed.  A PeerId is represented by its textual form.          *)
(***************************************************************************)
EXTENDS Integers, Sequences, FiniteSets, TLC

\* ------------------------------------------------------------------ bounds
\* Listen requests the event loop issues in one run.
MaxRequests == 2
\* Dial requests the event loop issues in one run.
MaxDials == 3
\* Inbound overlay streams (sharer) or local TCP connections (user) in one run.
MaxConns == 2
\* Bytes each side of a tunnel session sends in one run.
MaxBytes == 1

\* ------------------------------------------------------------------ values
abc == <<"a", "b", "c">>
abc123 == <<"a", "b", "c", "1", "2", "3">>
xyz == <<"x", "y", "z">>
\* Peers of the overlay: they connect, are dialled, open streams.
Peers == {abc, abc123, xyz}
\* The value PeerId::random() leaves in sharer_peer_id when --user is not
\* parsed: a fresh identifier no peer of the overlay carries.
RandomPeerId == <<"r", "n", "d">>
\* A --user value that does not parse as a peer id.
Malformed == <<"?">>
\* No value: an option not given, an event without a peer id.
Absent == <<>>

Loopback8080 == "127.0.0.1:8080"
Wildcard8080 == "0.0.0.0:8080"
RelayAddress == <<"relay">>
CircuitMarker == "p2p-circuit"
QuicV4 == <<"ip4-any-quic">>
QuicV6 == <<"ip6-any-quic">>

\* relay_address.clone().with(Protocol::P2pCircuit)
RelayCircuitListenAddr == Append(RelayAddress, CircuitMarker)
\* relay_address.clone().with(Protocol::P2pCircuit).with(Protocol::P2p(peer))
RelayCircuitAddr(peer) == Append(Append(RelayAddress, CircuitMarker), peer)

\* One call of swarm.dial: the call site in main and the address passed.
\* at is "startup" (line 155), "on_error" (line 203) or "on_identify" (line 224).
Dial(at, addr) == [at |-> at, addr |-> addr]

\* ------------------------------------------------------------------ state
VARIABLES
    args,                       \* matches: the parsed command line
    mode,
    accepted_peer_ids,
    sharer_peer_id,
    proxy_listen_addr,
    mainPc,                     \* where main is
    sharer_dial_complete,
    relay_reservation_complete,
    lastReservationEvent,       \* history: the last of the two relay events
    dialed,                     \* the calls of swarm.dial, in order
    listening,                  \* addresses passed to swarm.listen_on, in order
    inFlight,                   \* swarm: main's dials of the sharer not yet answered
    sharerConnected,            \* swarm: a connection to the sharer is established
    proxySpawned,               \* the HttpProxy task was spawned
    acceptPc,                   \* where handle_incoming_streams is
    listenerSpawns,             \* spawns of portforward_connection_handler
    listenerPc,                 \* where portforward_connection_handler is
    conns                       \* inbound streams / local connections, in order

vars == <<args, mode, accepted_peer_ids, sharer_peer_id, proxy_listen_addr,
          mainPc, sharer_dial_complete, relay_reservation_complete,
          lastReservationEvent, dialed, listening, inFlight, sharerConnected,
          proxySpawned, acceptPc, listenerSpawns, listenerPc, conns>>

orchVars == <<sharer_dial_complete, relay_reservation_complete,
              lastReservationEvent, dialed, listening, inFlight,
              sharerConnected>>
\* What the swarm knows of the dials toward the sharer.
swarmVars == <<inFlight, sharerConnected>>
cfgVars == <<args, mode, accepted_peer_ids, sharer_peer_id, proxy_listen_addr>>
taskVars == <<proxySpawned, acceptPc, listenerSpawns, listenerPc, conns>>

\* The command lines the model starts from.
Cmd(sharer, ids, user, print, expose) ==
    [sharer |-> sharer, ids |-> ids, user |-> user, print |-> print,
     expose |-> expose]

CommandLines ==
    { Cmd(TRUE, <<>>, Absent, FALSE, FALSE),            \* -s
      Cmd(TRUE, <<abc>>, Absent, FALSE, FALSE),         \* -s abc
      Cmd(TRUE, <<xyz, abc123>>, Absent, FALSE, FALSE), \* -s xyz,abc123
      Cmd(FALSE, <<>>, abc123, FALSE, FALSE),           \* -u abc123
      Cmd(FALSE, <<>>, abc123, FALSE, TRUE),            \* -u abc123 -e
      Cmd(FALSE, <<>>, Malformed, FALSE, FALSE),        \* -u ?
      Cmd(FALSE, <<>>, Absent, TRUE, FALSE),            \* -p
      Cmd(TRUE, <<abc>>, Absent, TRUE, FALSE),          \* -p -s abc
      Cmd(FALSE, <<>>, abc123, TRUE, TRUE),             \* -p -u abc123 -e
      Cmd(FALSE, <<>>, Malformed, TRUE, FALSE),         \* -p -u ?
      Cmd(TRUE, <<abc>>, abc123, FALSE, TRUE),          \* -s abc -u abc123 -e
      Cmd(TRUE, <<abc>>, Malformed, FALSE, FALSE),      \* -s abc -u ?
      Cmd(FALSE, <<>>, Absent, FALSE, TRUE) }           \* -e

Init ==
    /\ args \in CommandLines
    /\ mode = "Undefined"
    /\ accepted_peer_ids = <<>>
    /\ sharer_peer_id = RandomPeerId
    /\ proxy_listen_addr = Loopback8080
    /\ mainPc = "parse"
    /\ sharer_dial_complete = FALSE
    /\ relay_reservation_complete = FALSE
    /\ lastReservationEvent = "none"
    /\ dialed = <<>>
    /\ listening = <<>>
    /\ inFlight = 0
    /\ sharerConnected = FALSE
    /\ proxySpawned = FALSE
    /\ acceptPc = "none"
    /\ listenerSpawns = 0
    /\ listenerPc = "none"
    /\ conns = <<>>

\* ------------------------------------------------------------------ main: startup
\* Mutant of ModeOf: --print-peer-id counts only when no other mode is given.
ModeOfPrintLast(a) ==
    IF a.sharer THEN "Sharer"
    ELSE IF a.user # Absent THEN "User"
    ELSE IF a.print THEN "PrintPeerId"
    ELSE "Undefined"

\* Mutant of ModeOf: --user is looked at before --sharer.
ModeOfUserFirst(a) ==
    IF a.print THEN "PrintPeerId"
    ELSE IF a.user # Absent THEN "User"
    ELSE IF a.sharer THEN "Sharer"
    ELSE "Undefined"

\* Lines 87-120: the mode and its parameters from the command line.
ModeOf(a) ==
    IF a.print THEN "PrintPeerId"
    ELSE IF a.sharer THEN "Sharer"
    ELSE IF a.user # Absent THEN "User"
    ELSE "Undefined"

\* Mutant of ExposeAddr: --expose-lan is not looked at.
ExposeAddrIgnored(expose) == Loopback8080

\* Lines 108-110: --expose-lan moves the listener to every interface.
ExposeAddr(expose) == IF expose THEN Wildcard8080 ELSE Loopback8080

ResolveMode ==
    /\ mainPc = "parse"
    /\ IF args.sharer
       THEN /\ accepted_peer_ids' = args.ids
            /\ UNCHANGED <<sharer_peer_id, proxy_listen_addr>>
            /\ mode' = ModeOf(args)
            /\ mainPc' = "build"
       ELSE IF args.user # Absent
       THEN IF args.user = Malformed
            THEN \* peer_id.parse()? returns the error from main
                 /\ mainPc' = "failed"
                 /\ UNCHANGED <<accepted_peer_ids, sharer_peer_id,
                                proxy_listen_addr, mode>>
            ELSE /\ sharer_peer_id' = args.user
                 /\ proxy_listen_addr' = ExposeAddr(args.expose)
                 /\ mode' = ModeOf(args)
                 /\ mainPc' = "build"
                 /\ UNCHANGED accepted_peer_ids
       ELSE /\ mode' = ModeOf(args)
            /\ mainPc' = IF ModeOf(args) = "Undefined" THEN "exited" ELSE "build"
            /\ UNCHANGED <<accepted_peer_ids, sharer_peer_id, proxy_listen_addr>>
    /\ UNCHANGED <<args, orchVars, taskVars>>

\* Mutant of Startup: the user's listener is spawned with the other tasks.
StartupSpawnsListener(buildOk, listenOk, dialOk) ==
    /\ mainPc = "build"
    /\ IF ~buildOk
       THEN \* get_identity().unwrap() panics, or a builder step's ? returns
            \* the error from main: the process ends before any request
            /\ mainPc' = "failed"
            /\ UNCHANGED <<dialed, listening, proxySpawned, acceptPc>>
       ELSE IF mode = "PrintPeerId"
       THEN \* lines 149-152: the peer id is logged, main returns Ok
            /\ mainPc' = "exited"
            /\ UNCHANGED <<dialed, listening, proxySpawned, acceptPc>>
       ELSE IF ~listenOk
       THEN \* swarm.listen_on(..)? returns the error from main
            /\ mainPc' = "failed"
            /\ listening' = <<QuicV4>>
            /\ UNCHANGED <<dialed, proxySpawned, acceptPc>>
       ELSE IF ~dialOk
       THEN \* swarm.dial(relay_address.clone()).unwrap() panics
            /\ mainPc' = "panicked"
            /\ listening' = <<QuicV4, QuicV6>>
            /\ dialed' = <<Dial("startup", RelayAddress)>>
            /\ UNCHANGED <<proxySpawned, acceptPc>>
       ELSE /\ mainPc' = "loop"
            /\ listening' = <<QuicV4, QuicV6>>
            /\ dialed' = <<Dial("startup", RelayAddress)>>
            /\ proxySpawned' = (mode = "Sharer")
            /\ acceptPc' = IF mode = "Sharer" THEN "running" ELSE "none"
    /\ IF mainPc' = "loop" /\ mode = "User"
       THEN listenerSpawns' = 1 /\ listenerPc' = "bind"
       ELSE UNCHANGED <<listenerSpawns, listenerPc>>
    /\ UNCHANGED <<cfgVars, sharer_dial_complete, relay_reservation_complete,
                   lastReservationEvent, swarmVars, conns>>

\* Lines 122-181: build the swarm; print the peer id and return, or listen on
\* the two QUIC addresses, dial the relay and spawn the sharer's tasks.
\* buildOk: get_identity and the swarm builder return Ok; listenOk: both
\* listen_on calls return Ok; dialOk: swarm.dial returns Ok.
Startup(buildOk, listenOk, dialOk) ==
    /\ mainPc = "build"
    /\ IF ~buildOk
       THEN \* get_identity().unwrap() panics, or a builder step's ? returns
            \* the error from main: the process ends before any request
            /\ mainPc' = "failed"
            /\ UNCHANGED <<dialed, listening, proxySpawned, acceptPc>>
       ELSE IF mode = "PrintPeerId"
       THEN \* lines 149-152: the peer id is logged, main returns Ok
            /\ mainPc' = "exited"
            /\ UNCHANGED <<dialed, listening, proxySpawned, acceptPc>>
       ELSE IF ~listenOk
       THEN \* swarm.listen_on(..)? returns the error from main
            /\ mainPc' = "failed"
            /\ listening' = <<QuicV4>>
            /\ UNCHANGED <<dialed, proxySpawned, acceptPc>>
       ELSE IF ~dialOk
       THEN \* swarm.dial(relay_address.clone()).unwrap() panics
            /\ mainPc' = "panicked"
            /\ listening' = <<QuicV4, QuicV6>>
            /\ dialed' = <<Dial("startup", RelayAddress)>>
            /\ UNCHANGED <<proxySpawned, acceptPc>>
       ELSE /\ mainPc' = "loop"
            /\ listening' = <<QuicV4, QuicV6>>
            /\ dialed' = <<Dial("startup", RelayAddress)>>
            /\ proxySpawned' = (mode = "Sharer")
            /\ acceptPc' = IF mode = "Sharer" THEN "running" ELSE "none"
    /\ UNCHANGED <<cfgVars, sharer_dial_complete, relay_reservation_complete,
                   lastReservationEvent, swarmVars, listenerSpawns, listenerPc,
                   conns>>

\* ------------------------------------------------------------------ main: event loop
\* Line 184: swarm.next().await hands the loop its next event.
Running == mainPc = "loop"

\* The handler about to run issues a dial (listen) request: the run has room
\* for it.
CanDial == Len(dialed) < 1 + MaxDials
CanListen == Len(listening) < 2 + MaxRequests

\* Mutant of OnExternalAddrExpired: the flag is not cleared.
OnExternalAddrExpiredKeepsFlag ==
    /\ Running
    /\ lastReservationEvent' = "expired"
    /\ UNCHANGED <<cfgVars, mainPc, sharer_dial_complete,
                   relay_reservation_complete, dialed, listening, swarmVars,
                   taskVars>>

\* Lines 187-189.
OnExternalAddrExpired ==
    /\ Running
    /\ relay_reservation_complete' = FALSE
    /\ lastReservationEvent' = "expired"
    /\ UNCHANGED <<cfgVars, mainPc, sharer_dial_complete, dialed, listening,
                   swarmVars, taskVars>>

\* Lines 190-195.
OnReservationReqAccepted ==
    /\ Running
    /\ relay_reservation_complete' = TRUE
    /\ lastReservationEvent' = "accepted"
    /\ UNCHANGED <<cfgVars, mainPc, sharer_dial_complete, dialed, listening,
                   swarmVars, taskVars>>

\* Mutant of IsSharerPeer: any failed peer counts.
IsAnyPeer(peer_id) == peer_id # Absent

\* Line 201: peer_id.is_some_and(|id| id == sharer_peer_id)
IsSharerPeer(peer_id) == peer_id # Absent /\ peer_id = sharer_peer_id

\* The swarm can report this failed dial.  own: the dial is one main issued
\* toward the sharer and that is still unanswered.  Otherwise the dial came
\* from a behaviour of the swarm (line 38: dcutr dials a peer directly to
\* upgrade an established relayed connection to it).
CanFail(peer_id, own) ==
    /\ own => IsSharerPeer(peer_id) /\ inFlight > 0
    /\ (~own /\ IsSharerPeer(peer_id)) => sharerConnected

\* The dials of main toward the sharer left unanswered once the event is
\* handled: the failed one is answered, the one just issued is pending.
Pending(own, dialOk) ==
    inFlight - (IF own THEN 1 ELSE 0) + (IF dialOk THEN 1 ELSE 0)

\* Mutant of OnOutgoingConnectionError: line 202 not commented out.
OnOutgoingConnectionErrorResetsFlag(peer_id, own, dialOk) ==
    /\ Running
    /\ CanFail(peer_id, own)
    /\ IF IsSharerPeer(peer_id)
       THEN /\ CanDial
            /\ sharer_dial_complete' = FALSE
            /\ dialed' = Append(dialed, Dial("on_error",
                                             RelayCircuitAddr(sharer_peer_id)))
            /\ mainPc' = IF dialOk THEN "loop" ELSE "panicked"
            /\ inFlight' = Pending(own, dialOk)
       ELSE UNCHANGED <<sharer_dial_complete, dialed, mainPc, inFlight>>
    /\ UNCHANGED <<cfgVars, relay_reservation_complete, lastReservationEvent,
                   listening, sharerConnected, taskVars>>

\* Lines 196-212: connection_id and error are not looked at.  dialOk:
\* swarm.dial returns Ok; on Err the unwrap panics.
OnOutgoingConnectionError(peer_id, own, dialOk) ==
    /\ Running
    /\ CanFail(peer_id, own)
    /\ IF IsSharerPeer(peer_id)
       THEN /\ CanDial
            /\ dialed' = Append(dialed, Dial("on_error",
                                             RelayCircuitAddr(sharer_peer_id)))
            /\ mainPc' = IF dialOk THEN "loop" ELSE "panicked"
            /\ inFlight' = Pending(own, dialOk)
       ELSE UNCHANGED <<dialed, mainPc, inFlight>>
    /\ UNCHANGED <<cfgVars, sharer_dial_complete, relay_reservation_complete,
                   lastReservationEvent, listening, sharerConnected, taskVars>>

\* Line 241, SwarmEvent::ConnectionEstablished for the sharer: traced and
\* dropped by main.  The connection answers a dial main issued.
OnConnectionEstablished(peer_id) ==
    /\ Running
    /\ IsSharerPeer(peer_id)
    /\ inFlight > 0
    /\ inFlight' = inFlight - 1
    /\ sharerConnected' = TRUE
    /\ UNCHANGED <<cfgVars, mainPc, sharer_dial_complete,
                   relay_reservation_complete, lastReservationEvent, dialed,
                   listening, taskVars>>

\* Mutant of IdentifySharer: the listen request does not look at the flag.
IdentifySharerAlways(listenOk) ==
    /\ CanListen
    /\ listening' = Append(listening, RelayCircuitListenAddr)
    /\ mainPc' = IF listenOk THEN "loop" ELSE "panicked"
    /\ UNCHANGED <<dialed, inFlight, sharer_dial_complete, listenerSpawns,
                   listenerPc>>

\* Lines 216-221: the sharer asks the relay for a circuit listen while it has
\* no reservation.  listenOk: swarm.listen_on returns Ok; on Err the unwrap panics.
IdentifySharer(listenOk) ==
    /\ IF relay_reservation_complete = FALSE
       THEN /\ CanListen
            /\ listening' = Append(listening, RelayCircuitListenAddr)
            /\ mainPc' = IF listenOk THEN "loop" ELSE "panicked"
       ELSE UNCHANGED <<listening, mainPc>>
    /\ UNCHANGED <<dialed, inFlight, sharer_dial_complete, listenerSpawns,
                   listenerPc>>

\* Lines 223-238: the user dials the sharer through the relay and spawns the
\* local listener, once.  dialOk: swarm.dial returns Ok; on Err the unwrap
\* panics before the spawn and before the flag is set.
IdentifyUser(dialOk) ==
    /\ IF sharer_dial_complete = FALSE
       THEN /\ CanDial
            /\ dialed' = Append(dialed, Dial("on_identify",
                                             RelayCircuitAddr(sharer_peer_id)))
            /\ IF dialOk
               THEN /\ inFlight' = inFlight + 1
                    /\ listenerSpawns' = listenerSpawns + 1
                    /\ listenerPc' = "bind"
                    /\ sharer_dial_complete' = TRUE
                    /\ UNCHANGED mainPc
               ELSE /\ mainPc' = "panicked"
                    /\ UNCHANGED <<inFlight, listenerSpawns, listenerPc,
                                   sharer_dial_complete>>
       ELSE UNCHANGED <<dialed, mainPc, inFlight, listenerSpawns, listenerPc,
                        sharer_dial_complete>>
    /\ UNCHANGED listening

\* Mutant of OnIdentifyReceived: the mode is not looked at.
OnIdentifyReceivedAnyMode(peer, callOk) ==
    /\ Running
    /\ IdentifyUser(callOk)
    /\ UNCHANGED <<cfgVars, relay_reservation_complete, lastReservationEvent,
                   sharerConnected, proxySpawned, acceptPc, conns>>

\* Lines 213-240.  The peer of the event is not looked at.
OnIdentifyReceived(peer, callOk) ==
    /\ Running
    /\ IF mode = "Sharer" THEN IdentifySharer(callOk) ELSE IdentifyUser(callOk)
    /\ UNCHANGED <<cfgVars, relay_reservation_complete, lastReservationEvent,
                   sharerConnected, proxySpawned, acceptPc, conns>>

\* Line 241: every other event is traced and dropped.
OnOtherEvent ==
    /\ Running
    /\ UNCHANGED vars

\* ------------------------------------------------------------------ access control
\* Mutant of Contains: the two operands of contains the other way round.
ContainsReversed(haystack, needle) ==
    \E i \in 0..(Len(needle) - Len(haystack)) :
        SubSeq(needle, i + 1, i + Len(haystack)) = haystack

\* str::contains: needle occurs in haystack as a contiguous run of characters.
Contains(haystack, needle) ==
    \E i \in 0..(Len(haystack) - Len(needle)) :
        SubSeq(haystack, i + 1, i + Len(needle)) = needle

\* Lines 302-309: the loop over accepted_peer_ids from entry i on, is_accepted
\* being the flag's value on entry to the iteration.
RECURSIVE AclLoop(_, _, _, _)
AclLoop(acl, peer_id_str, i, is_accepted) ==
    IF i > Len(acl) THEN is_accepted
    ELSE IF Contains(acl[i], peer_id_str) THEN TRUE
    ELSE AclLoop(acl, peer_id_str, i + 1, FALSE)

IsAccepted(acl, peer_id_str) == AclLoop(acl, peer_id_str, 1, TRUE)

\* ------------------------------------------------------------------ tunnel sessions
\* One entry of conns: an inbound overlay stream (sharer) or an accepted local
\* TCP connection (user).  appOpen / p2pOpen: the TCP socket / the overlay
\* stream is held open by this process.  appRecv: bytes copied from the
\* overlay stream to the TCP socket; p2pRecv: bytes copied the other way.
NewConn(peer, accepted, task, phase, appOpen, p2pOpen) ==
    [peer |-> peer, accepted |-> accepted, task |-> task, phase |-> phase,
     appOpen |-> appOpen, p2pOpen |-> p2pOpen, appRecv |-> 0, p2pRecv |-> 0,
     p2pEof |-> FALSE, appEof |-> FALSE, report |-> <<>>]

ConnIds == 1..Len(conns)
SetConn(i, c) == conns' = [conns EXCEPT ![i] = c]

\* Mutant of Admit: the `continue` of the rejected branch is missing.
AdmitAll(is_accepted, peer) ==
    NewConn(peer, is_accepted, TRUE, "connecting", FALSE, TRUE)

\* Lines 300-316: one (peer, stream) pair from incoming_streams; a rejected
\* stream is dropped by `continue`, an accepted one gets its own task.
Admit(is_accepted, peer) ==
    IF is_accepted
    THEN NewConn(peer, TRUE, TRUE, "connecting", FALSE, TRUE)
    ELSE NewConn(peer, FALSE, FALSE, "rejected", FALSE, FALSE)

HandleIncomingStream(peer) ==
    /\ Running
    /\ acceptPc = "running"
    /\ Len(conns) < MaxConns
    /\ conns' = Append(conns,
                       Admit(IsAccepted(accepted_peer_ids, peer), peer))
    /\ UNCHANGED <<cfgVars, mainPc, orchVars, proxySpawned, acceptPc,
                   listenerSpawns, listenerPc>>

\* Mutant of SessionConnect: the connect runs in the acceptance loop itself,
\* so that its panic ends the loop.
SessionConnectInLoop(i, ok) ==
    /\ Running
    /\ i \in ConnIds
    /\ conns[i].phase = "connecting"
    /\ SetConn(i, IF ok
                  THEN [conns[i] EXCEPT !.phase = "copying", !.appOpen = TRUE]
                  ELSE [conns[i] EXCEPT !.phase = "panicked", !.p2pOpen = FALSE])
    /\ acceptPc' = IF ok THEN acceptPc ELSE "panicked"
    /\ UNCHANGED <<cfgVars, mainPc, orchVars, proxySpawned,
                   listenerSpawns, listenerPc>>

\* Line 317: TcpStream::connect("127.0.0.1:8090").await.unwrap(); on Err the
\* unwrap panics inside the spawned task, which ends that task alone.
SessionConnect(i, ok) ==
    /\ Running
    /\ i \in ConnIds
    /\ conns[i].phase = "connecting"
    /\ SetConn(i, IF ok
                  THEN [conns[i] EXCEPT !.phase = "copying", !.appOpen = TRUE]
                  ELSE [conns[i] EXCEPT !.phase = "panicked", !.p2pOpen = FALSE])
    /\ UNCHANGED <<cfgVars, mainPc, orchVars, proxySpawned, acceptPc,
                   listenerSpawns, listenerPc>>

\* tokio::io::copy_bidirectional(&mut p2p_tokio_stream, &mut app_stream):
\* each direction copies until its reader sees end-of-stream, then shuts the
\* other side's writer down; the call returns once both directions are done.
Copying(i) == Running /\ i \in ConnIds /\ conns[i].phase = "copying"

CopyP2pToApp(i) ==
    /\ Copying(i)
    /\ ~conns[i].p2pEof
    /\ conns[i].appRecv < MaxBytes
    /\ SetConn(i, [conns[i] EXCEPT !.appRecv = @ + 1])
    /\ UNCHANGED <<cfgVars, mainPc, orchVars, proxySpawned, acceptPc,
                   listenerSpawns, listenerPc>>

CopyAppToP2p(i) ==
    /\ Copying(i)
    /\ ~conns[i].appEof
    /\ conns[i].p2pRecv < MaxBytes
    /\ SetConn(i, [conns[i] EXCEPT !.p2pRecv = @ + 1])
    /\ UNCHANGED <<cfgVars, mainPc, orchVars, proxySpawned, acceptPc,
                   listenerSpawns, listenerPc>>

P2pEndOfStream(i) ==
    /\ Copying(i)
    /\ ~conns[i].p2pEof
    /\ SetConn(i, [conns[i] EXCEPT !.p2pEof = TRUE])
    /\ UNCHANGED <<cfgVars, mainPc, orchVars, proxySpawned, acceptPc,
                   listenerSpawns, listenerPc>>

AppEndOfStream(i) ==
    /\ Copying(i)
    /\ ~conns[i].appEof
    /\ SetConn(i, [conns[i] EXCEPT !.appEof = TRUE])
    /\ UNCHANGED <<cfgVars, mainPc, orchVars, proxySpawned, acceptPc,
                   listenerSpawns, listenerPc>>

\* The Ok value of copy_bidirectional(a, b): (bytes a to b, bytes b to a),
\* a being the overlay stream and b the TCP socket.
CopyResult(c) == <<c.appRecv, c.p2pRecv>>

\* Mutant of UserReport: the two counts in each other's place.
UserReportSwapped(result) == [wrote |-> result[1], received |-> result[2]]

\* Lines 277-291: (from_p2p, from_app) = result;
\* "App wrote {from_app} bytes and received {from_p2p} bytes".
UserReport(result) == [wrote |-> result[2], received |-> result[1]]

\* Lines 322-335: (from_p2p, from_app) = result;
\* "P2P stream wrote {from_p2p} bytes and received {from_app} bytes".
SharerReport(result) == [wrote |-> result[1], received |-> result[2]]

\* Mutant of SessionComplete: the copy returns at the first end of stream.
SessionCompleteAtFirstEof(i) ==
    /\ Copying(i)
    /\ conns[i].p2pEof \/ conns[i].appEof
    /\ SetConn(i, [conns[i] EXCEPT
                     !.phase = "logged", !.p2pEof = FALSE, !.appEof = FALSE,
                     !.report = IF mode = "Sharer"
                                THEN SharerReport(CopyResult(conns[i]))
                                ELSE UserReport(CopyResult(conns[i])),
                     !.appOpen = FALSE, !.p2pOpen = FALSE])
    /\ UNCHANGED <<cfgVars, mainPc, orchVars, proxySpawned, acceptPc,
                   listenerSpawns, listenerPc>>

\* The copy returns Ok: the session logs its counts and the task ends, which
\* drops (closes) both streams.
SessionComplete(i) ==
    /\ Copying(i)
    /\ conns[i].p2pEof /\ conns[i].appEof
    /\ SetConn(i, [conns[i] EXCEPT
                     !.phase = "logged", !.p2pEof = FALSE, !.appEof = FALSE,
                     !.report = IF mode = "Sharer"
                                THEN SharerReport(CopyResult(conns[i]))
                                ELSE UserReport(CopyResult(conns[i])),
                     !.appOpen = FALSE, !.p2pOpen = FALSE])
    /\ UNCHANGED <<cfgVars, mainPc, orchVars, proxySpawned, acceptPc,
                   listenerSpawns, listenerPc>>

\* The copy returns Err (lines 280-285, 325-328): the error is logged and the
\* task returns, which drops both streams.
SessionCopyError(i) ==
    /\ Copying(i)
    /\ SetConn(i, [conns[i] EXCEPT !.phase = "failed",
                                   !.p2pEof = FALSE, !.appEof = FALSE,
                                   !.appOpen = FALSE, !.p2pOpen = FALSE])
    /\ UNCHANGED <<cfgVars, mainPc, orchVars, proxySpawned, acceptPc,
                   listenerSpawns, listenerPc>>

\* ------------------------------------------------------------------ user's local listener
\* Line 253: TcpListener::bind(proxy_listen_addr).await.unwrap()
ListenerBind(ok) ==
    /\ Running
    /\ listenerPc = "bind"
    /\ listenerPc' = IF ok THEN "accept" ELSE "panicked"
    /\ UNCHANGED <<cfgVars, mainPc, orchVars, proxySpawned, acceptPc,
                   listenerSpawns, conns>>

\* Lines 256-257: listener.accept().await.unwrap(); on Err the unwrap panics
\* inside the listener task.
LocalAccept(ok) ==
    /\ Running
    /\ listenerPc = "accept"
    /\ Len(conns) < MaxConns
    /\ IF ok
       THEN /\ conns' = Append(conns, NewConn(sharer_peer_id, TRUE, FALSE,
                                              "opening", TRUE, FALSE))
            /\ listenerPc' = "open"
       ELSE /\ listenerPc' = "panicked"
            /\ UNCHANGED conns
    /\ UNCHANGED <<cfgVars, mainPc, orchVars, proxySpawned, acceptPc,
                   listenerSpawns>>

\* Lines 259-271: control.open_stream(peer, PROXY_PROTOCOL); on either error
\* the loop continues, which drops app_stream; on Ok the session is spawned.
OpenStreamResults == {"Ok", "UnsupportedProtocol", "Other"}

Opened(c, result) ==
    IF result = "Ok"
    THEN [c EXCEPT !.phase = "copying", !.task = TRUE, !.p2pOpen = TRUE]
    ELSE [c EXCEPT !.phase = "dropped", !.appOpen = FALSE]

\* Mutant of OpenStream: the result is unwrapped instead of matched.
OpenStreamUnwrap(result) ==
    /\ Running
    /\ listenerPc = "open"
    /\ SetConn(Len(conns), Opened(conns[Len(conns)], result))
    /\ listenerPc' = IF result = "Ok" THEN "accept" ELSE "panicked"
    /\ UNCHANGED <<cfgVars, mainPc, orchVars, proxySpawned, acceptPc,
                   listenerSpawns>>

OpenStream(result) ==
    /\ Running
    /\ listenerPc = "open"
    /\ SetConn(Len(conns), Opened(conns[Len(conns)], result))
    /\ listenerPc' = "accept"
    /\ UNCHANGED <<cfgVars, mainPc, orchVars, proxySpawned, acceptPc,
                   listenerSpawns>>

\* ------------------------------------------------------------------ specification
EventPeers == Peers \cup {Absent}

Next ==
    \/ ResolveMode
    \/ \E buildOk \in BOOLEAN, listenOk \in BOOLEAN, dialOk \in BOOLEAN :
            Startup(buildOk, listenOk, dialOk)
    \/ OnExternalAddrExpired
    \/ OnReservationReqAccepted
    \/ \E p \in EventPeers, own \in BOOLEAN, dialOk \in BOOLEAN :
            OnOutgoingConnectionError(p, own, dialOk)
    \/ \E p \in Peers : OnConnectionEstablished(p)
    \/ \E p \in Peers, callOk \in BOOLEAN : OnIdentifyReceived(p, callOk)
    \/ OnOtherEvent
    \/ \E p \in Peers : HandleIncomingStream(p)
    \/ \E i \in 1..MaxConns, ok \in BOOLEAN : SessionConnect(i, ok)
    \/ \E i \in 1..MaxConns : CopyP2pToApp(i)
    \/ \E i \in 1..MaxConns : CopyAppToP2p(i)
    \/ \E i \in 1..MaxConns : P2pEndOfStream(i)
    \/ \E i \in 1..MaxConns : AppEndOfStream(i)
    \/ \E i \in 1..MaxConns : SessionComplete(i)
    \/ \E i \in 1..MaxConns : SessionCopyError(i)
    \/ \E ok \in BOOLEAN : ListenerBind(ok)
    \/ \E ok \in BOOLEAN : LocalAccept(ok)
    \/ \E r \in OpenStreamResults : OpenStream(r)

Spec == Init /\ [][Next]_vars

\* ------------------------------------------------------------------ properties
\* C1 as stated: an inbound stream is accepted iff the ACL is empty or some
\* ACL entry is a substring of the peer identifier.
C1_EntryInPeerId ==
    mode = "Sharer" =>
        \A i \in ConnIds :
            conns[i].accepted <=>
                \/ accepted_peer_ids = <<>>
                \/ \E k \in 1..Len(accepted_peer_ids) :
                       Contains(conns[i].peer, accepted_peer_ids[k])

\* C1 amended: an inbound stream is accepted iff the ACL is empty or the peer
\* identifier is a substring of some ACL entry.
C1_PeerIdInEntry ==
    mode = "Sharer" =>
        \A i \in ConnIds :
            conns[i].accepted <=>
                \/ accepted_peer_ids = <<>>
                \/ \E k \in 1..Len(accepted_peer_ids) :
                       \E from \in 1..Len(accepted_peer_ids[k]) :
                           \E to \in from..Len(accepted_peer_ids[k]) :
                               SubSeq(accepted_peer_ids[k], from, to)
                                   = conns[i].peer

\* The sharer started with the ACL [abc] has admitted peer abc and turned
\* peer abc123 away.
C1_Witness ==
    /\ mode = "Sharer"
    /\ accepted_peer_ids = <<abc>>
    /\ \E i \in ConnIds : conns[i].peer = abc /\ conns[i].accepted
    /\ \E i \in ConnIds : conns[i].peer = abc123 /\ ~conns[i].accepted

\* C2: in User mode the identify-triggered dial and the listener spawn happen
\* at most once each, both have happened once the first identify event is
\* processed, which sets the dial-once flag, and the flag is never reset.
IdentifyDials == {k \in 1..Len(dialed) : dialed[k].at = "on_identify"}

C2_DialAndSpawnOnce ==
    [][/\ sharer_dial_complete => sharer_dial_complete'
       /\ Cardinality(IdentifyDials') <= 1
       /\ listenerSpawns' <= 1
       /\ \A p \in Peers :
              (mode = "User" /\ \E ok \in BOOLEAN : OnIdentifyReceived(p, ok)) =>
                  /\ sharer_dial_complete'
                  /\ listenerSpawns' = 1
                  /\ Cardinality(IdentifyDials') = 1
      ]_vars

\* C3: the reservation flag is true exactly when the last of the
\* external-address-expired and reservation-accepted events was
\* reservation-accepted, and false when neither has occurred.
C3_FlagIsLastReservationEvent ==
    relay_reservation_complete <=> lastReservationEvent = "accepted"

\* A sharer asked for a circuit listen while it had no reservation, and the
\* last relay event since is the expiry of its address.
C3_Witness ==
    /\ mode = "Sharer"
    /\ Running
    /\ Len(listening) > 2
    /\ lastReservationEvent = "expired"
    /\ ~relay_reservation_complete

\* C4: an outbound-connection-failed event for the sharer target causes
\* exactly one dial of RelayAddress + circuit marker + target; one for another
\* peer, or without a peer id, causes none.
C4_RetryDial ==
    [][\A p \in Peers \cup {Absent} :
           (\E own \in BOOLEAN, ok \in BOOLEAN :
                OnOutgoingConnectionError(p, own, ok)) =>
               dialed' = IF p \in Peers /\ p = sharer_peer_id
                         THEN dialed \o <<[at |-> "on_error",
                                           addr |-> <<"relay", "p2p-circuit", p>>]>>
                         ELSE dialed
      ]_vars

\* The user has dialled the sharer on the first identify event and once more
\* after that dial failed.
C4_Witness ==
    /\ mode = "User"
    /\ Running
    /\ sharer_dial_complete
    /\ Len(dialed) = 3
    /\ dialed[2].at = "on_identify"
    /\ dialed[3] = [at |-> "on_error", addr |-> <<"relay", "p2p-circuit", abc123>>]

\* C5: a stream the access control check rejects gets no session task and no
\* TCP connection to the local proxy, and no byte of it is copied.
C5_RejectedNeverForwarded ==
    mode = "Sharer" =>
        \A i \in ConnIds :
            ~IsAccepted(accepted_peer_ids, conns[i].peer) =>
                /\ ~conns[i].task
                /\ ~conns[i].appOpen
                /\ ~conns[i].p2pOpen
                /\ conns[i].phase = "rejected"
                /\ conns[i].appRecv = 0 /\ conns[i].p2pRecv = 0

\* A rejected stream next to an accepted one that is connected to the proxy.
C5_Witness ==
    /\ mode = "Sharer"
    /\ \E i, j \in ConnIds :
           /\ conns[i].phase = "rejected"
           /\ conns[j].phase = "copying" /\ conns[j].appOpen

\* C6: once the event loop runs, no event and no failing dial or listen
\* request ends it.
C6_LoopNeverExits == [][Running => Running']_vars

\* C7: a failed local accept does not end the listener loop.
C7_AcceptErrorKeepsListener ==
    [][listenerPc = "accept" => listenerPc' \in {"accept", "open"}]_vars

\* C8: when open_stream fails for an accepted local connection, that
\* connection and no other is dropped, no session is spawned for it, and the
\* listener goes back to accepting.
C8_OpenFailureDropsOne ==
    [][/\ listenerPc = "open" => listenerPc' \in {"open", "accept"}
       /\ \A i \in ConnIds :
              (conns[i].phase # "dropped" /\ conns'[i].phase = "dropped") =>
                  /\ i = Len(conns)
                  /\ conns[i].phase = "opening"
                  /\ listenerPc' = "accept"
                  /\ ~conns'[i].task /\ ~conns'[i].appOpen /\ ~conns'[i].p2pOpen
                  /\ \A j \in ConnIds \ {i} : conns'[j] = conns[j]
       /\ \A i \in ConnIds :
              conns[i].phase = "dropped" => conns'[i] = conns[i]
      ]_vars

\* The first local connection was dropped on a failed open_stream and the
\* second one is tunnelled.
C8_Witness ==
    /\ mode = "User"
    /\ Len(conns) = 2
    /\ conns[1].phase = "dropped"
    /\ conns[2].phase = "copying" /\ conns[2].task /\ conns[2].p2pRecv > 0

\* C9: a failing session (the connect to the local proxy, or the copy) ends
\* alone: main, the acceptance loop, the listener and every other session are
\* as they were.
C9_SessionFailureIsolated ==
    [][\A i \in ConnIds :
           (/\ conns[i].phase \in {"connecting", "copying"}
            /\ conns'[i].phase \in {"panicked", "failed"}) =>
               /\ mainPc' = mainPc
               /\ acceptPc' = acceptPc
               /\ listenerPc' = listenerPc
               /\ UNCHANGED orchVars
               /\ Len(conns') = Len(conns)
               /\ \A j \in ConnIds \ {i} : conns'[j] = conns[j]
      ]_vars

\* One session of the sharer has failed; the acceptance loop runs and another
\* session copies on.
C9_Witness ==
    /\ mode = "Sharer"
    /\ Running
    /\ acceptPc = "running"
    /\ Len(conns) = 2
    /\ conns[1].phase \in {"panicked", "failed"}
    /\ conns[2].phase = "copying" /\ conns[2].appRecv > 0

\* C10: a completed session reports the bytes that went from the local TCP
\* leg to the overlay stream and those that went the other way, each in its
\* place, and both legs are closed.
C10_ReportedCounts ==
    \A i \in ConnIds :
        conns[i].phase = "logged" =>
            /\ ~conns[i].appOpen /\ ~conns[i].p2pOpen
            /\ mode = "User" =>
                   \* "App wrote .. and received .."
                   /\ conns[i].report.wrote = conns[i].p2pRecv
                   /\ conns[i].report.received = conns[i].appRecv
            /\ mode = "Sharer" =>
                   \* "P2P stream wrote .. and received .."
                   /\ conns[i].report.wrote = conns[i].appRecv
                   /\ conns[i].report.received = conns[i].p2pRecv

\* A user's session has completed after the local leg sent more than the
\* remote one.
C10_Witness ==
    /\ mode = "User"
    /\ \E i \in ConnIds :
           /\ conns[i].phase = "logged"
           /\ conns[i].p2pRecv > conns[i].appRecv

\* The process has asked the swarm for nothing and has spawned no task, and
\* main is not in its event loop.
NoNetworkActivity ==
    /\ dialed = <<>>
    /\ listening = <<>>
    /\ ~proxySpawned
    /\ acceptPc = "none"
    /\ listenerSpawns = 0
    /\ listenerPc = "none"
    /\ ~Running

\* C11 as stated: whenever --print-peer-id is given, whatever other mode
\* flags accompany it, the resolved mode is PrintPeerId and the process does
\* no listen, no dial, spawns no task and never enters the event loop.
C11_PrintWhateverElse ==
    (args.print /\ mainPc # "parse") =>
        mode = "PrintPeerId" /\ NoNetworkActivity

\* C11, amended: with --print-peer-id the process never does any network
\* activity.  When --user is given without --sharer and its value does not
\* parse, main returns the parse error and the mode stays unresolved; in
\* every other combination the mode is PrintPeerId and, the swarm once built,
\* startup logs the peer id and main returns Ok.
C11_PrintOverride ==
    [][(args.print /\ mainPc' # "parse") =>
           /\ NoNetworkActivity'
           /\ IF ~args.sharer /\ args.user = Malformed
              THEN mainPc' = "failed" /\ mode' = "Undefined"
              ELSE /\ mode' = "PrintPeerId"
                   /\ (\E l \in BOOLEAN, d \in BOOLEAN : Startup(TRUE, l, d))
                          => mainPc' = "exited"
                   /\ (mainPc' = "failed" /\ mainPc # "failed")
                          => \E l \in BOOLEAN, d \in BOOLEAN : Startup(FALSE, l, d)
                   /\ mainPc' \in {"build", "exited", "failed"}
      ]_vars

\* --print-peer-id came with --user and --expose-lan: the peer id was logged
\* and main returned Ok.
C11_Witness ==
    /\ args.print /\ args.user # Absent /\ args.expose
    /\ mode = "PrintPeerId"
    /\ mainPc = "exited"
    /\ NoNetworkActivity

\* C12: in Sharer mode an identify event issues a relay-circuit listen
\* request exactly when the reservation flag is false at that moment: no
\* listen request is issued while the flag is true, every identify event
\* handled while it is false issues one more, and so does the next identify
\* event after an external-address-expired event.
C12_ListenIffNoReservation ==
    [][(mode = "Sharer" /\ Running) =>
           /\ relay_reservation_complete => listening' = listening
           /\ \A p \in Peers :
                  (\E ok \in BOOLEAN : OnIdentifyReceived(p, ok)) =>
                      /\ listening' =
                             IF relay_reservation_complete
                             THEN listening
                             ELSE Append(listening, RelayCircuitListenAddr)
                      /\ lastReservationEvent = "expired" =>
                             Len(listening') = Len(listening) + 1
      ]_vars

\* A sharer has asked for the circuit listen twice, and the reservation it
\* got in between has expired.
C12_Witness ==
    /\ mode = "Sharer"
    /\ Running
    /\ Len(listening) = 4
    /\ listening[3] = RelayCircuitListenAddr
    /\ listening[4] = RelayCircuitListenAddr
    /\ lastReservationEvent = "expired"

\* C13: in every reachable state of User mode at most one dial toward the
\* sharer that main issued is still unanswered by a connection-established
\* or outgoing-connection-error event.
C13_OneDialInFlight ==
    mode = "User" => inFlight <= 1

\* The calls of swarm.dial that passed the relay-circuit address of the
\* sharer.
SharerDials ==
    {k \in 1..Len(dialed) : dialed[k].addr = RelayCircuitAddr(sharer_peer_id)}

\* C14: in User mode the local listener is spawned, binds and accepts only
\* after a dial of the sharer through the relay was issued: no state has a
\* listener, or a local connection, and no such dial.
C14_ListenerAfterDial ==
    (mode = "User" /\ (listenerSpawns > 0 \/ listenerPc # "none" \/ conns # <<>>))
        => /\ SharerDials # {}
           /\ \E k \in SharerDials : dialed[k].at = "on_identify"

\* A user's listener is bound and has accepted a local connection.
C14_Witness ==
    /\ mode = "User"
    /\ listenerPc \in {"accept", "open"}
    /\ conns # <<>>
    /\ SharerDials # {}

\* C15 as stated: the copy of a session ends when either leg signals end of
\* stream: from then on no byte is copied in either direction.
C15_EndsAtFirstEof ==
    [][\A i \in ConnIds :
           (conns[i].phase = "copying" /\ (conns[i].p2pEof \/ conns[i].appEof)) =>
               /\ conns'[i].appRecv = conns[i].appRecv
               /\ conns'[i].p2pRecv = conns[i].p2pRecv
      ]_vars

\* C15, amended: the end of stream of one leg ends the copy out of that leg
\* only; the copy returns once both legs have signalled end of stream, or at
\* the first I/O error.  A session that has ended has both legs closed and
\* copies no further byte.
C15_EndsAtBothEofOrError ==
    [][\A i \in ConnIds :
           LET c == conns[i]
               d == conns'[i]
           IN  /\ c.phase \in {"logged", "failed"} => d = c
               /\ d.phase \in {"logged", "failed"} => ~d.appOpen /\ ~d.p2pOpen
               /\ (c.phase = "copying" /\ c.p2pEof) => d.appRecv = c.appRecv
               /\ (c.phase = "copying" /\ c.appEof) => d.p2pRecv = c.p2pRecv
               /\ (c.phase = "copying" /\ d.phase = "logged") =>
                      c.p2pEof /\ c.appEof
               /\ SessionCopyError(i) => d.phase = "failed"
      ]_vars

\* The overlay leg of a session has signalled end of stream, the TCP leg has
\* not: the session is still copying, both legs open.
C15_Witness ==
    \E i \in ConnIds :
        /\ conns[i].phase = "copying"
        /\ conns[i].p2pEof /\ ~conns[i].appEof
        /\ conns[i].appOpen /\ conns[i].p2pOpen

\* C16: every session that has ended, in either role, has logged the bytes
\* transferred in each direction, whether its copy returned Ok or Err.
C16_CountsLoggedAlways ==
    \A i \in ConnIds :
        conns[i].phase \in {"logged", "failed"} =>
            /\ conns[i].report # <<>>
            /\ {conns[i].report.wrote, conns[i].report.received} =
                   {conns[i].appRecv, conns[i].p2pRecv}

\* C17 as stated: the bind address of the local listener is 0.0.0.0:8080
\* exactly when the resolved mode is User and --expose-lan is given, and
\* 127.0.0.1:8080 in every other flag combination.
C17_WildcardIffUserMode ==
    mainPc # "parse" =>
        /\ proxy_listen_addr \in {Loopback8080, Wildcard8080}
        /\ proxy_listen_addr = Wildcard8080 <=> (mode = "User" /\ args.expose)

\* C17, amended: the bind address is 0.0.0.0:8080 exactly when --user is
\* given with a well-formed id, --sharer is not given and --expose-lan is
\* given, --print-peer-id or not; a listener exists in User mode only, so it
\* is bound on 0.0.0.0:8080 exactly when the mode is User with --expose-lan.
C17_WildcardIffUserBranch ==
    mainPc # "parse" =>
        /\ proxy_listen_addr =
               IF ~args.sharer /\ args.user \in Peers /\ args.expose
               THEN Wildcard8080
               ELSE Loopback8080
        /\ (listenerSpawns > 0 \/ listenerPc # "none") => mode = "User"
        /\ mode = "User" => (proxy_listen_addr = Wildcard8080 <=> args.expose)

\* A user started with --expose-lan has its listener bound, on every
\* interface.
C17_Witness ==
    /\ mode = "User"
    /\ args.expose
    /\ listenerPc = "accept"
    /\ proxy_listen_addr = Wildcard8080

\* C18: a sharer dials nothing but the relay at startup, spawns no local
\* listener and leaves the dial-once flag false; a user never asks for a
\* relay-circuit listen, never starts the acceptance loop nor the HTTP proxy.
C18_ModeSeparation ==
    /\ mode = "Sharer" =>
           /\ \A k \in 1..Len(dialed) : dialed[k] = Dial("startup", RelayAddress)
           /\ listenerSpawns = 0 /\ listenerPc = "none"
           /\ ~sharer_dial_complete
    /\ mode = "User" =>
           /\ \A k \in 1..Len(listening) : listening[k] \in {QuicV4, QuicV6}
           /\ acceptPc = "none"
           /\ ~proxySpawned

\* A sharer in its event loop has handled identify events, which made it ask
\* for the circuit listen, and has taken an inbound stream.
C18_Witness ==
    /\ mode = "Sharer"
    /\ Running
    /\ \E k \in 1..Len(listening) : listening[k] = RelayCircuitListenAddr
    /\ proxySpawned /\ acceptPc = "running"
    /\ conns # <<>>

\* The retry dials: the calls of swarm.dial made by the handler of
\* OutgoingConnectionError.
RetryDials == {k \in 1..Len(dialed) : dialed[k].at = "on_error"}

\* C19: handling an outgoing-connection-error event leaves the dial-once
\* flag and the reservation flag as they were, retry or not; once the
\* listener is spawned no event after a retry spawns a second one.
C19_ErrorKeepsFlags ==
    [][/\ \A p \in EventPeers :
              (\E own \in BOOLEAN, ok \in BOOLEAN :
                   OnOutgoingConnectionError(p, own, ok)) =>
                  /\ sharer_dial_complete' = sharer_dial_complete
                  /\ relay_reservation_complete' = relay_reservation_complete
                  /\ listenerSpawns' = listenerSpawns
       /\ (sharer_dial_complete /\ RetryDials # {}) =>
              listenerSpawns' = listenerSpawns
       /\ listenerSpawns' <= 1
      ]_vars

\* A user that has spawned its listener has retried the dial of the sharer
\* after a failure, and is still in its event loop with the flag set.
C19_Witness ==
    /\ mode = "User"
    /\ Running
    /\ sharer_dial_complete
    /\ listenerSpawns = 1
    /\ RetryDials # {}

\* C20: with --sharer and --user both given and no --print-peer-id the mode
\* is Sharer, the --user value is not parsed (a malformed one does not stop
\* main), it never becomes the sharer target, and --expose-lan is ignored.
\* When the flags yield no mode, main ends before the swarm is built and
\* without any network activity.
C20_SharerWinsOrNoMode ==
    [][/\ (args.sharer /\ args.user # Absent /\ ~args.print) =>
              /\ ResolveMode => mainPc' = "build"
              /\ mainPc' # "parse" =>
                     /\ mode' = "Sharer"
                     /\ accepted_peer_ids' = args.ids
                     /\ sharer_peer_id' = RandomPeerId
                     /\ proxy_listen_addr' = Loopback8080
       /\ (~args.sharer /\ args.user \in {Absent, Malformed} /\ ~args.print) =>
              /\ ResolveMode =>
                     mainPc' = IF args.user = Absent THEN "exited" ELSE "failed"
              /\ mode' = "Undefined"
              /\ mainPc' \in {"parse", "exited", "failed"}
              /\ NoNetworkActivity'
      ]_vars

\* A sharer started with a --user value that does not parse is in its event
\* loop.
C20_Witness ==
    /\ args.sharer /\ args.user = Malformed /\ ~args.print
    /\ mode = "Sharer"
    /\ Running
    /\ sharer_peer_id = RandomPeerId

====
